---- MODULE Spec2Model ----
(***************************************************************************)
(* A model of the finite-automaton engine of src/src/fsm/automaton.py:     *)
(* the frozen dataclass FiniteAutomaton, its construction-time validation, *)
(* and the operations step, process, accepts and is_complete, driven by a  *)
(* single synchronous caller.                                              *)
(***************************************************************************)
EXTENDS Integers, Sequences, FiniteSets, TLC

(***************************************************************************)
(* Bounds of the model.                                                    *)
(***************************************************************************)
\* the largest number of entries of a transitions mapping handed to the constructor
MaxTransitions == 2
\* the longest input sequence handed to process
MaxLen == 3
\* the longest input sequence handed to process between two step calls that are compared
MaxLenBetween == 1
\* the longest input sequence a concurrent caller hands to process or accepts
MaxLenThreads == 2
\* the longest string handed to mod_three
MaxBits == 5

\* the State values a caller can supply (StateT is an unconstrained type variable)
StateU == {"A", "B"}
\* the Symbol values a caller can supply (SymbolT is an unconstrained type variable)
SymbolU == {"0", "1"}

\* a field of an outcome that carries no value
NoValue == "-"

(***************************************************************************)
(* Outcomes of a call: a returned value or a raised exception.  An         *)
(* exception carries its class (kind) and what its message names: the      *)
(* phrase of the message (what) and the !r-formatted values in it.         *)
(***************************************************************************)
Outcome(kind, value, what, state, symbol, set) ==
    [kind |-> kind, value |-> value, what |-> what,
     state |-> state, symbol |-> symbol, set |-> set]

\* no call has completed
Pending == Outcome("pending", NoValue, NoValue, NoValue, NoValue, {})

\* `return v`
Return(v) == Outcome("return", v, NoValue, NoValue, NoValue, {})

InvalidStateError(what, state, set) ==
    Outcome("InvalidStateError", NoValue, what, state, NoValue, set)

InvalidSymbolError(symbol) ==
    Outcome("InvalidSymbolError", NoValue, "symbol", NoValue, symbol, {})

InvalidTransitionError(what, state, symbol) ==
    Outcome("InvalidTransitionError", NoValue, what, state, symbol, {})

\* `raise ValueError("Input cannot be empty: expected a binary string")`
ValueError == Outcome("ValueError", NoValue, "Input cannot be empty", NoValue, NoValue, {})

\* the exceptions of the engine, the subclasses of FSMError
IsError(o) == o.kind \in {"InvalidStateError", "InvalidSymbolError", "InvalidTransitionError"}

(***************************************************************************)
(* The transitions mapping is a Python dict: a sequence of items in        *)
(* insertion order, no two with the same key (state, symbol).              *)
(***************************************************************************)
Item(source_state, symbol, target_state) ==
    [source_state |-> source_state, symbol |-> symbol, target_state |-> target_state]

Items == {Item(q, x, t) : q \in StateU, x \in SymbolU, t \in StateU}

RECURSIVE DictsOfLen(_)
DictsOfLen(n) ==
    IF n = 0 THEN {<<>>}
    ELSE {Append(d, it) : d \in DictsOfLen(n - 1), it \in Items}

DistinctKeys(d) ==
    \A i, j \in 1..Len(d) :
        (d[i].source_state = d[j].source_state /\ d[i].symbol = d[j].symbol) => i = j

Dicts == {d \in UNION {DictsOfLen(n) : n \in 0..MaxTransitions} : DistinctKeys(d)}

\* `key in d`
dict_contains(d, state, symbol) ==
    \E i \in 1..Len(d) : d[i].source_state = state /\ d[i].symbol = symbol

\* dict_getitem with the key built from the state alone
dict_getitem_by_state(d, state, symbol) ==
    d[CHOOSE i \in 1..Len(d) : d[i].source_state = state].target_state

\* `d[key]`, for a key that is in d
dict_getitem(d, state, symbol) ==
    d[CHOOSE i \in 1..Len(d) : d[i].source_state = state /\ d[i].symbol = symbol].target_state

\* `d[key] = value`: the value of an item of d is replaced where the item stands, a new
\* item goes last
dict_setitem(d, state, symbol, value) ==
    IF dict_contains(d, state, symbol)
    THEN [i \in 1..Len(d) |->
            IF d[i].source_state = state /\ d[i].symbol = symbol
            THEN Item(state, symbol, value) ELSE d[i]]
    ELSE Append(d, Item(state, symbol, value))

\* `del d[key]`, for a key that is in d
dict_delitem(d, state, symbol) ==
    SelectSeq(d, LAMBDA it : ~(it.source_state = state /\ it.symbol = symbol))

(***************************************************************************)
(* The five fields of the dataclass.                                       *)
(***************************************************************************)
FiniteAutomaton(states, alphabet, initial_state, accepting_states, transitions) ==
    [states |-> states, alphabet |-> alphabet, initial_state |-> initial_state,
     accepting_states |-> accepting_states, transitions |-> transitions]

\* the tuples a caller can hand to the constructor
Tuples ==
    {FiniteAutomaton(Q, S, q0, F, d) :
        Q \in SUBSET StateU, S \in SUBSET SymbolU, q0 \in StateU,
        F \in SUBSET StateU, d \in Dicts}

\* the input sequences a caller can hand to process
RECURSIVE SeqsOfLen(_)
SeqsOfLen(n) ==
    IF n = 0 THEN {<<>>}
    ELSE {Append(s, x) : s \in SeqsOfLen(n - 1), x \in SymbolU}

Inputs == UNION {SeqsOfLen(n) : n \in 0..MaxLen}

\* the input sequences handed to process and accepts where what matters is that the
\* call happened: between two step calls that are compared, before a field assignment
ShortInputs == UNION {SeqsOfLen(n) : n \in 0..MaxLenBetween}

\* the input sequences concurrent callers hand to process and accepts
ThreadInputs == UNION {SeqsOfLen(n) : n \in 0..MaxLenThreads}

\* the concurrent callers
Threads == {"t1", "t2"}

\* the frame of a caller that has not called yet
NoFrame ==
    [pc |-> "idle", op |-> NoValue, op_args |-> <<>>, input_sequence |-> <<>>,
     consumed |-> 0, current_state |-> NoValue, result |-> Pending]

\* the two-state automaton with B staying in B on "0"
simple_automaton_b_0_to_b ==
    FiniteAutomaton({"A", "B"}, {"0", "1"}, "A", {"B"},
                    <<Item("A", "0", "A"), Item("A", "1", "B"),
                      Item("B", "0", "B"), Item("B", "1", "B")>>)

\* the two-state automaton of the tests, which accepts the strings that end in 1
simple_automaton ==
    FiniteAutomaton({"A", "B"}, {"0", "1"}, "A", {"B"},
                    <<Item("A", "0", "A"), Item("A", "1", "B"),
                      Item("B", "0", "A"), Item("B", "1", "B")>>)

\* the automaton of test_incomplete_automaton, with no transition from B
incomplete_automaton ==
    FiniteAutomaton({"A", "B"}, {"0", "1"}, "A", {"B"},
                    <<Item("A", "0", "A"), Item("A", "1", "B")>>)

\* the automata concurrent callers share
SharedTuples == {simple_automaton, incomplete_automaton}

VARIABLES
    ctor_args,       \* the arguments of the constructor call, once it is made
    ctor_result,     \* what the constructor call did: returned or raised
    heap,            \* the automaton objects the caller holds (none or one)
    pc,              \* where the caller is: "idle", inside "process", or back in
                     \* "accepts" with what process returned
    op,              \* the engine operation called last
    op_args,         \* its arguments
    input_sequence,  \* process: the iterable being consumed
    consumed,        \* process: how many symbols the for loop has taken from it
    current_state,   \* process: the local current_state
    step_calls,      \* how many times the running or last operation entered step
    result,          \* the outcome of the operation called last
    kept,            \* an earlier step call whose outcome the caller kept:
                     \* <<state, symbol, outcome, whether another operation ended since>>
    threads          \* the frame of the one call each concurrent caller makes

vars == <<ctor_args, ctor_result, heap, pc, op, op_args, input_sequence, consumed,
          current_state, step_calls, result, kept, threads>>

\* the automaton the caller holds
Self == CHOOSE a \in heap : TRUE

(***************************************************************************)
(* _validate, lines 47-73.                                                 *)
(***************************************************************************)
\* validate_item without the check of the target state
validate_item_no_target(self, it) ==
    IF it.source_state \notin self.states
    THEN InvalidTransitionError("source state", it.source_state, NoValue)
    ELSE IF it.symbol \notin self.alphabet
    THEN InvalidTransitionError("symbol", NoValue, it.symbol)
    ELSE Return(NoValue)

\* validate_item without the check of the source state
validate_item_no_source(self, it) ==
    IF it.symbol \notin self.alphabet
    THEN InvalidTransitionError("symbol", NoValue, it.symbol)
    ELSE IF it.target_state \notin self.states
    THEN InvalidTransitionError("target state", it.target_state, NoValue)
    ELSE Return(NoValue)

\* validate_item without the check of the symbol
validate_item_no_symbol(self, it) ==
    IF it.source_state \notin self.states
    THEN InvalidTransitionError("source state", it.source_state, NoValue)
    ELSE IF it.target_state \notin self.states
    THEN InvalidTransitionError("target state", it.target_state, NoValue)
    ELSE Return(NoValue)

\* the body of the for loop over transitions.items(), for one item
validate_item(self, it) ==
    IF it.source_state \notin self.states
    THEN InvalidTransitionError("source state", it.source_state, NoValue)
    ELSE IF it.symbol \notin self.alphabet
    THEN InvalidTransitionError("symbol", NoValue, it.symbol)
    ELSE IF it.target_state \notin self.states
    THEN InvalidTransitionError("target state", it.target_state, NoValue)
    ELSE Return(NoValue)

\* the for loop: the error of the first item that has one
RECURSIVE validate_items(_, _)
validate_items(self, items) ==
    IF items = <<>> THEN Return(NoValue)
    ELSE LET o == validate_item(self, Head(items))
         IN  IF IsError(o) THEN o ELSE validate_items(self, Tail(items))

\* _validate with accepting_states checked before initial_state
_validate_accepting_first(self) ==
    IF ~(self.accepting_states \subseteq self.states)
    THEN InvalidStateError("accepting states", NoValue,
                           self.accepting_states \ self.states)
    ELSE IF self.initial_state \notin self.states
    THEN InvalidStateError("initial state", self.initial_state, {})
    ELSE validate_items(self, self.transitions)

\* _validate without the loop over the transitions
_validate_states_only(self) ==
    IF self.initial_state \notin self.states
    THEN InvalidStateError("initial state", self.initial_state, {})
    ELSE IF ~(self.accepting_states \subseteq self.states)
    THEN InvalidStateError("accepting states", NoValue,
                           self.accepting_states \ self.states)
    ELSE Return(NoValue)

\* _validate with the transitions validated before the initial and accepting states
_validate_transitions_first(self) ==
    LET o == validate_items(self, self.transitions)
    IN  IF IsError(o) THEN o
        ELSE IF self.initial_state \notin self.states
        THEN InvalidStateError("initial state", self.initial_state, {})
        ELSE IF ~(self.accepting_states \subseteq self.states)
        THEN InvalidStateError("accepting states", NoValue,
                               self.accepting_states \ self.states)
        ELSE Return(NoValue)

_validate(self) ==
    IF self.initial_state \notin self.states
    THEN InvalidStateError("initial state", self.initial_state, {})
    ELSE IF ~(self.accepting_states \subseteq self.states)
    THEN InvalidStateError("accepting states", NoValue,
                           self.accepting_states \ self.states)
    ELSE validate_items(self, self.transitions)

\* __init__ with the accepting_states field set from the states argument
__init__accepting_from_states(t) ==
    FiniteAutomaton(t.states, t.alphabet, t.initial_state, t.states, t.transitions)

\* the generated __init__ of the frozen dataclass: each field is set from its argument
__init__(t) ==
    FiniteAutomaton(t.states, t.alphabet, t.initial_state, t.accepting_states,
                    t.transitions)

\* __post_init__
__post_init__(self) == _validate(self)

\* the values a caller can try to assign to a field
AttrValues(name) ==
    CASE name = "states" -> SUBSET StateU
      [] name = "alphabet" -> SUBSET SymbolU
      [] name = "initial_state" -> StateU
      [] name = "accepting_states" -> SUBSET StateU
      [] name = "transitions" -> {<<>>}

FieldNames == {"states", "alphabet", "initial_state", "accepting_states", "transitions"}

FrozenInstanceError(name) ==
    Outcome("FrozenInstanceError", NoValue, name, NoValue, NoValue, {})

\* __setattr__ of a dataclass that is not frozen: the field is assigned
__setattr__unfrozen(self, name, value) ==
    [object |-> [self EXCEPT ![name] = value], outcome |-> Return(NoValue)]

\* line 13, frozen=True: the generated __setattr__ raises for every field and assigns
\* nothing
__setattr__(self, name, value) ==
    [object |-> self, outcome |-> FrozenInstanceError(name)]

(***************************************************************************)
(* step, lines 91-103.                                                     *)
(***************************************************************************)
\* step with the lookup of the key done before the check of the symbol
step_lookup_first(self, state, symbol) ==
    IF state \notin self.states
    THEN InvalidStateError("state", state, {})
    ELSE IF ~dict_contains(self.transitions, state, symbol)
    THEN InvalidTransitionError("no transition", state, symbol)
    ELSE IF symbol \notin self.alphabet
    THEN InvalidSymbolError(symbol)
    ELSE Return(dict_getitem(self.transitions, state, symbol))

\* step with the symbol checked before the state
step_symbol_first(self, state, symbol) ==
    IF symbol \notin self.alphabet
    THEN InvalidSymbolError(symbol)
    ELSE IF state \notin self.states
    THEN InvalidStateError("state", state, {})
    ELSE IF ~dict_contains(self.transitions, state, symbol)
    THEN InvalidTransitionError("no transition", state, symbol)
    ELSE Return(dict_getitem(self.transitions, state, symbol))

\* step on an automaton that remembers where the last process call stopped, and
\* goes on from there
step_from_remembered(self, state, symbol) ==
    LET from == IF current_state \in self.states THEN current_state ELSE state
    IN  IF from \notin self.states
        THEN InvalidStateError("state", from, {})
        ELSE IF symbol \notin self.alphabet
        THEN InvalidSymbolError(symbol)
        ELSE IF ~dict_contains(self.transitions, from, symbol)
        THEN InvalidTransitionError("no transition", from, symbol)
        ELSE Return(dict_getitem(self.transitions, from, symbol))

step(self, state, symbol) ==
    IF state \notin self.states
    THEN InvalidStateError("state", state, {})
    ELSE IF symbol \notin self.alphabet
    THEN InvalidSymbolError(symbol)
    ELSE IF ~dict_contains(self.transitions, state, symbol)
    THEN InvalidTransitionError("no transition", state, symbol)
    ELSE Return(dict_getitem(self.transitions, state, symbol))

(***************************************************************************)
(* process, lines 119-124.                                                 *)
(***************************************************************************)
\* process starting from some state of the automaton, not the initial one
process_begin_any_state(self) == CHOOSE q \in self.states : q # self.initial_state \/ self.states = {q}

\* line 119: current_state = self.initial_state
process_begin(self) == self.initial_state

\* the for loop's iterator: whether input_sequence has a symbol after the n taken so far
has_next(seq, n) == n < Len(seq)

\* an iterator that yields the symbols last to first
next_symbol_reversed(seq, n) == seq[Len(seq) - n]

\* an iterator that starts over every time and yields the first symbol again
next_symbol_again(seq, n) == seq[1]

\* the for loop's iterator: the symbol it yields after the n taken so far
next_symbol(seq, n) == seq[n + 1]

\* line 122 with the exceptions of step caught and raised again as InvalidTransitionError
process_step_wrapped(self, state, symbol) ==
    LET o == step(self, state, symbol)
    IN  IF IsError(o) THEN InvalidTransitionError("no transition", state, symbol) ELSE o

\* line 122: the right-hand side, self.step(current_state, symbol)
process_step(self, state, symbol) == step(self, state, symbol)

\* line 124: return current_state
process_return(state) == Return(state)

(***************************************************************************)
(* accepts, lines 140-141, and is_complete, lines 154-155.                 *)
(***************************************************************************)
\* a Python bool
bool(b) == IF b THEN "True" ELSE "False"

\* accepts testing the final state against states
accepts_return_in_states(self, final_state) == Return(bool(final_state \in self.states))

\* line 141: return final_state in self.accepting_states
accepts_return(self, final_state) == Return(bool(final_state \in self.accepting_states))

\* is_complete answering True whatever the automaton
is_complete_always(self) == Return(bool(TRUE))

\* is_complete expecting one transition for each state
is_complete_states_only(self) ==
    LET expected_transitions == Cardinality(self.states)
    IN  Return(bool(Len(self.transitions) = expected_transitions))

\* lines 154-155; len of a dict is the number of its items
is_complete(self) ==
    LET expected_transitions == Cardinality(self.states) * Cardinality(self.alphabet)
    IN  Return(bool(Len(self.transitions) = expected_transitions))

Init ==
    /\ ctor_args = <<>>
    /\ ctor_result = Pending
    /\ heap = {}
    /\ pc = "idle"
    /\ op = NoValue
    /\ op_args = <<>>
    /\ input_sequence = <<>>
    /\ consumed = 0
    /\ current_state = NoValue
    /\ step_calls = 0
    /\ result = Pending
    /\ kept = <<>>
    /\ threads = [t \in Threads |-> NoFrame]

\* FiniteAutomaton(...) on one of tuples, called once: the object exists for the
\* caller only if __post_init__ returns
ConstructFrom(tuples) ==
    /\ pc = "idle"
    /\ ctor_args = <<>>
    /\ \E t \in tuples :
         LET self == __init__(t)
             o == __post_init__(self)
         IN  /\ ctor_args' = <<t>>
             /\ ctor_result' = o
             /\ heap' = IF IsError(o) THEN {} ELSE {self}
    /\ UNCHANGED <<threads, pc, op, op_args, input_sequence, consumed, current_state,
                   step_calls, result, kept>>

Construct == ConstructFrom(Tuples)

\* what the caller has kept, after another operation ended
Another(k) == IF k = <<>> THEN k ELSE <<k[1], k[2], k[3], TRUE>>

\* the caller calls self.step(state, symbol); with keeps = BOOLEAN it may keep the outcome
StepCall(keeps) ==
    /\ pc = "idle"
    /\ heap # {}
    /\ \E state \in StateU, symbol \in SymbolU, keep \in keeps :
         LET o == step(Self, state, symbol)
         IN  /\ op' = "step"
             /\ op_args' = <<state, symbol>>
             /\ result' = o
             /\ kept' = IF keep THEN <<state, symbol, o, FALSE>>
                        ELSE IF kept # <<>> /\ <<kept[1], kept[2]>> = <<state, symbol>>
                        THEN kept
                        ELSE Another(kept)
    /\ step_calls' = 1
    /\ input_sequence' = <<>>
    /\ consumed' = 0
    /\ current_state' = NoValue
    /\ UNCHANGED <<threads, ctor_args, ctor_result, heap, pc>>

\* the caller calls self.process(input_sequence), a sequence of inputs: line 119
ProcessCall(inputs) ==
    /\ pc = "idle"
    /\ heap # {}
    /\ \E seq \in inputs :
         /\ input_sequence' = seq
         /\ op_args' = <<seq>>
    /\ op' = "process"
    /\ pc' = "process"
    /\ current_state' = process_begin(Self)
    /\ consumed' = 0
    /\ step_calls' = 0
    /\ result' = Pending
    /\ UNCHANGED <<threads, ctor_args, ctor_result, heap, kept>>

\* lines 121-122: one iteration of the for loop; an exception of step leaves process
ProcessLoop ==
    /\ pc = "process"
    /\ has_next(input_sequence, consumed)
    /\ LET symbol == next_symbol(input_sequence, consumed)
           o == process_step(Self, current_state, symbol)
       IN  /\ consumed' = consumed + 1
           /\ step_calls' = step_calls + 1
           /\ IF IsError(o)
              THEN /\ pc' = "idle"
                   /\ result' = o
                   /\ kept' = Another(kept)
                   /\ UNCHANGED current_state
              ELSE /\ current_state' = o.value
                   /\ UNCHANGED <<pc, result, kept>>
    /\ UNCHANGED <<threads, ctor_args, ctor_result, heap, op, op_args, input_sequence>>

\* line 124: the iterator is exhausted; process returns to its caller, which is the
\* caller of the engine or the frame of accepts (line 140), where result holds what
\* process returned
ProcessReturn ==
    /\ pc = "process"
    /\ ~has_next(input_sequence, consumed)
    /\ pc' = IF op = "process" THEN "idle" ELSE op
    /\ result' = process_return(current_state)
    /\ kept' = Another(kept)
    /\ UNCHANGED <<threads, ctor_args, ctor_result, heap, op, op_args, input_sequence, consumed,
                   current_state, step_calls>>

\* the caller calls self.accepts(input_sequence): line 140 calls self.process; an
\* exception of process passes through accepts, which has no try
AcceptsCall(inputs) ==
    /\ pc = "idle"
    /\ heap # {}
    /\ \E seq \in inputs :
         /\ input_sequence' = seq
         /\ op_args' = <<seq>>
    /\ op' = "accepts"
    /\ pc' = "process"
    /\ current_state' = process_begin(Self)
    /\ consumed' = 0
    /\ step_calls' = 0
    /\ result' = Pending
    /\ UNCHANGED <<threads, ctor_args, ctor_result, heap, kept>>

\* line 141, with final_state what process returned
AcceptsReturn ==
    /\ pc = "accepts"
    /\ pc' = "idle"
    /\ result' = accepts_return(Self, result.value)
    /\ UNCHANGED <<threads, ctor_args, ctor_result, heap, op, op_args, input_sequence, consumed,
                   current_state, step_calls, kept>>

\* the caller reads the property self.is_complete
IsComplete ==
    /\ pc = "idle"
    /\ heap # {}
    /\ op' = "is_complete"
    /\ op_args' = <<>>
    /\ result' = is_complete(Self)
    /\ kept' = Another(kept)
    /\ step_calls' = 0
    /\ input_sequence' = <<>>
    /\ consumed' = 0
    /\ current_state' = NoValue
    /\ UNCHANGED <<threads, ctor_args, ctor_result, heap, pc>>

\* the caller runs `self.<name> = value`
SetAttr ==
    /\ pc = "idle"
    /\ heap # {}
    /\ \E name \in FieldNames :
         \E value \in AttrValues(name) :
            LET done == __setattr__(Self, name, value)
            IN  /\ heap' = {done.object}
                /\ result' = done.outcome
                /\ op_args' = <<name, value>>
    /\ op' = "setattr"
    /\ kept' = Another(kept)
    /\ step_calls' = 0
    /\ input_sequence' = <<>>
    /\ consumed' = 0
    /\ current_state' = NoValue
    /\ UNCHANGED <<threads, ctor_args, ctor_result, pc>>

Step == StepCall({FALSE})

Process == ProcessCall(Inputs)

Accepts == AcceptsCall(Inputs)

Next ==
    \/ Construct
    \/ Step
    \/ Process
    \/ ProcessLoop
    \/ ProcessReturn
    \/ Accepts
    \/ AcceptsReturn
    \/ IsComplete

Spec == Init /\ [][Next]_vars

ProcessBetween == ProcessCall(ShortInputs)

AcceptsBetween == AcceptsCall(ShortInputs)

\* a caller of the four operations that also tries to assign to the fields of the
\* automaton
NextFrozen ==
    \/ Construct
    \/ Step
    \/ ProcessBetween
    \/ ProcessLoop
    \/ ProcessReturn
    \/ AcceptsBetween
    \/ AcceptsReturn
    \/ IsComplete
    \/ SetAttr

SpecFrozen == Init /\ [][NextFrozen]_vars

(***************************************************************************)
(* The caller and the mapping it passed.  The generated __init__ stores    *)
(* the transitions argument itself in the field (lines 31-35 make no       *)
(* copy), so the dict the caller passed and self.transitions are one       *)
(* object: what the caller does to its dict happens to the field.          *)
(* ctor_args keeps the content the dict had when the constructor ran.      *)
(* The caller changes the dict once: it is the first change that matters.  *)
(***************************************************************************)
\* the dict is as the caller passed it
Untouched == Self.transitions = ctor_args[1].transitions

\* the caller runs `transitions[(state, symbol)] = value` on the dict it passed
CallerSetItem ==
    /\ pc = "idle"
    /\ heap # {}
    /\ Untouched
    /\ \E state \in StateU, symbol \in SymbolU, value \in StateU :
         heap' = {[Self EXCEPT !.transitions = dict_setitem(@, state, symbol, value)]}
    /\ UNCHANGED <<threads, ctor_args, ctor_result, pc, op, op_args, input_sequence, consumed,
                   current_state, step_calls, result, kept>>

\* the caller runs `del transitions[(state, symbol)]` on the dict it passed
CallerDelItem ==
    /\ pc = "idle"
    /\ heap # {}
    /\ Untouched
    /\ \E state \in StateU, symbol \in SymbolU :
         /\ dict_contains(Self.transitions, state, symbol)
         /\ heap' = {[Self EXCEPT !.transitions = dict_delitem(@, state, symbol)]}
    /\ UNCHANGED <<threads, ctor_args, ctor_result, pc, op, op_args, input_sequence, consumed,
                   current_state, step_calls, result, kept>>

NextCaller == Construct \/ CallerSetItem \/ CallerDelItem \/ Step \/ IsComplete

SpecCaller == Init /\ [][NextCaller]_vars

\* the same caller, keeping outcomes of step to compare later calls with
StepKeeping == StepCall(BOOLEAN)

NextKept == Construct \/ StepKeeping \/ ProcessBetween \/ ProcessLoop \/ ProcessReturn

SpecKept == Init /\ [][NextKept]_vars

(***************************************************************************)
(* Several callers on one automaton.  Each thread makes one call; the      *)
(* locals of the call (input_sequence, the iterator, current_state) live   *)
(* in the thread's own frame, and the threads take their steps (one        *)
(* iteration of the for loop of process, one return) in any order.  None   *)
(* of the four operations assigns to a field of self.                      *)
(***************************************************************************)
\* process keeping its current state where every thread running process reads it
shared_current_state(t) ==
    LET running == {u \in Threads \ {t} : threads[u].pc = "process"}
    IN  IF running = {} THEN threads[t].current_state
        ELSE threads[CHOOSE u \in running : TRUE].current_state

\* lines 119-122: current_state is a local variable of the call of process
local_current_state(t) == threads[t].current_state

\* a thread is in none of the four operations yet
CanCall(t) == pc = "idle" /\ heap # {} /\ threads[t].pc = "idle"

ConstructShared == ConstructFrom(SharedTuples)

\* a thread calls self.step(state, symbol)
ThreadStep ==
    /\ \E t \in Threads, state \in StateU, symbol \in SymbolU :
         /\ CanCall(t)
         /\ threads' = [threads EXCEPT ![t] =
                [@ EXCEPT !.pc = "done", !.op = "step", !.op_args = <<state, symbol>>,
                          !.result = step(Self, state, symbol)]]
    /\ UNCHANGED <<ctor_args, ctor_result, heap, pc, op, op_args, input_sequence,
                   consumed, current_state, step_calls, result, kept>>

\* a thread reads self.is_complete
ThreadIsComplete ==
    /\ \E t \in Threads :
         /\ CanCall(t)
         /\ threads' = [threads EXCEPT ![t] =
                [@ EXCEPT !.pc = "done", !.op = "is_complete",
                          !.result = is_complete(Self)]]
    /\ UNCHANGED <<ctor_args, ctor_result, heap, pc, op, op_args, input_sequence,
                   consumed, current_state, step_calls, result, kept>>

\* a thread calls self.process or self.accepts, which calls self.process: line 119
ThreadProcess ==
    /\ \E t \in Threads, name \in {"process", "accepts"}, seq \in ThreadInputs :
         /\ CanCall(t)
         /\ threads' = [threads EXCEPT ![t] =
                [@ EXCEPT !.pc = "process", !.op = name, !.op_args = <<seq>>,
                          !.input_sequence = seq,
                          !.current_state = process_begin(Self)]]
    /\ UNCHANGED <<ctor_args, ctor_result, heap, pc, op, op_args, input_sequence,
                   consumed, current_state, step_calls, result, kept>>

\* lines 121-122 in a thread: one iteration of the for loop
ThreadProcessLoop ==
    /\ \E t \in Threads :
         /\ threads[t].pc = "process"
         /\ has_next(threads[t].input_sequence, threads[t].consumed)
         /\ LET symbol == next_symbol(threads[t].input_sequence, threads[t].consumed)
                o == process_step(Self, local_current_state(t), symbol)
            IN  threads' = [threads EXCEPT ![t] =
                   IF IsError(o)
                   THEN [@ EXCEPT !.consumed = @ + 1, !.pc = "done", !.result = o]
                   ELSE [@ EXCEPT !.consumed = @ + 1, !.current_state = o.value]]
    /\ UNCHANGED <<ctor_args, ctor_result, heap, pc, op, op_args, input_sequence,
                   consumed, current_state, step_calls, result, kept>>

\* line 124 in a thread: process returns, to the thread's caller or to accepts
ThreadProcessReturn ==
    /\ \E t \in Threads :
         /\ threads[t].pc = "process"
         /\ ~has_next(threads[t].input_sequence, threads[t].consumed)
         /\ threads' = [threads EXCEPT ![t] =
                [@ EXCEPT !.pc = IF threads[t].op = "process" THEN "done" ELSE "accepts",
                          !.result = process_return(local_current_state(t))]]
    /\ UNCHANGED <<ctor_args, ctor_result, heap, pc, op, op_args, input_sequence,
                   consumed, current_state, step_calls, result, kept>>

\* line 141 in a thread
ThreadAcceptsReturn ==
    /\ \E t \in Threads :
         /\ threads[t].pc = "accepts"
         /\ threads' = [threads EXCEPT ![t] =
                [@ EXCEPT !.pc = "done",
                          !.result = accepts_return(Self, threads[t].result.value)]]
    /\ UNCHANGED <<ctor_args, ctor_result, heap, pc, op, op_args, input_sequence,
                   consumed, current_state, step_calls, result, kept>>

NextThreads ==
    \/ ConstructShared
    \/ ThreadStep
    \/ ThreadIsComplete
    \/ ThreadProcess
    \/ ThreadProcessLoop
    \/ ThreadProcessReturn
    \/ ThreadAcceptsReturn

SpecThreads == Init /\ [][NextThreads]_vars

(***************************************************************************)
(* examples/mod_three.py: the module builds the automaton when it is       *)
(* imported, and mod_three(binary_input) runs process on the characters of *)
(* the string and maps the final state to the remainder.  A str is the     *)
(* sequence of its characters.                                             *)
(***************************************************************************)
\* the characters of the strings handed to mod_three; "2" stands for every character
\* that is neither "0" nor "1"
Chars == {"0", "1", "2"}

\* the strings handed to mod_three
Strings == UNION {[1..n -> Chars] : n \in 0..MaxBits}

\* the members of ModThreeState
ModThreeState == {"S0", "S1", "S2"}

\* the automaton with the transition of (S2, "1") going to S1
_MOD_THREE_AUTOMATON_s2_1_to_s1 ==
    FiniteAutomaton(ModThreeState, {"0", "1"}, "S0", ModThreeState,
                    <<Item("S0", "0", "S0"), Item("S0", "1", "S1"),
                      Item("S1", "0", "S2"), Item("S1", "1", "S0"),
                      Item("S2", "0", "S1"), Item("S2", "1", "S1")>>)

\* the automaton with "2" in its alphabet
_MOD_THREE_AUTOMATON_alphabet_012 ==
    FiniteAutomaton(ModThreeState, {"0", "1", "2"}, "S0", ModThreeState,
                    <<Item("S0", "0", "S0"), Item("S0", "1", "S1"),
                      Item("S1", "0", "S2"), Item("S1", "1", "S0"),
                      Item("S2", "0", "S1"), Item("S2", "1", "S2")>>)

\* the automaton with the transition of (S0, "0") going to S1
_MOD_THREE_AUTOMATON_s0_0_to_s1 ==
    FiniteAutomaton(ModThreeState, {"0", "1"}, "S0", ModThreeState,
                    <<Item("S0", "0", "S1"), Item("S0", "1", "S1"),
                      Item("S1", "0", "S2"), Item("S1", "1", "S0"),
                      Item("S2", "0", "S1"), Item("S2", "1", "S2")>>)

\* lines 37-51: the arguments of the constructor
_MOD_THREE_AUTOMATON ==
    FiniteAutomaton(ModThreeState, {"0", "1"}, "S0", ModThreeState,
                    <<Item("S0", "0", "S0"), Item("S0", "1", "S1"),
                      Item("S1", "0", "S2"), Item("S1", "1", "S0"),
                      Item("S2", "0", "S1"), Item("S2", "1", "S2")>>)

\* lines 54-58
_STATE_TO_REMAINDER == [state \in ModThreeState |->
                          CASE state = "S0" -> 0 [] state = "S1" -> 1 [] state = "S2" -> 2]

\* mod_three without the check of line 76
not_never(binary_input) == FALSE

\* line 76: `not binary_input`, true of the empty string only
not(binary_input) == Len(binary_input) = 0

\* line 80
mod_three_return(final_state) == Return(_STATE_TO_REMAINDER[final_state])

\* `import mod_three`: lines 37-51 construct the automaton
ImportModThree == ConstructFrom({_MOD_THREE_AUTOMATON})

\* the caller calls mod_three(binary_input): lines 76-79
ModThree ==
    /\ pc = "idle"
    /\ heap # {}
    /\ \E binary_input \in Strings :
         /\ input_sequence' = binary_input
         /\ op_args' = <<binary_input>>
         /\ IF not(binary_input)
            THEN /\ pc' = "idle"
                 /\ result' = ValueError
                 /\ current_state' = NoValue
            ELSE /\ pc' = "process"
                 /\ result' = Pending
                 /\ current_state' = process_begin(Self)
    /\ op' = "mod_three"
    /\ consumed' = 0
    /\ step_calls' = 0
    /\ UNCHANGED <<threads, ctor_args, ctor_result, heap, kept>>

\* line 80, with final_state what process returned
ModThreeReturn ==
    /\ pc = "mod_three"
    /\ pc' = "idle"
    /\ result' = mod_three_return(result.value)
    /\ UNCHANGED <<threads, ctor_args, ctor_result, heap, op, op_args, input_sequence,
                   consumed, current_state, step_calls, kept>>

\* the caller calls process of the same automaton on the empty sequence
ProcessEmpty == ProcessCall({<<>>})

NextModThree ==
    \/ ImportModThree
    \/ ModThree
    \/ ProcessLoop
    \/ ProcessReturn
    \/ ModThreeReturn
    \/ ProcessEmpty

SpecModThree == Init /\ [][NextModThree]_vars

(***************************************************************************)
(* A call of process that is running keeps running: the interpreter        *)
(* executes the next iteration of the for loop, or the return, of the      *)
(* frame it is in.  The caller is under no obligation to call again.       *)
(***************************************************************************)
\* process does not read accepting_states: the tuples with none
ProcessTuples == {t \in Tuples : t.accepting_states = {}}

ConstructForProcess == ConstructFrom(ProcessTuples)

NextProcess == ConstructForProcess \/ Process \/ ProcessLoop \/ ProcessReturn

SpecProcess ==
    /\ Init
    /\ [][NextProcess]_vars
    /\ WF_vars(ProcessLoop)
    /\ WF_vars(ProcessReturn)

(***************************************************************************)
(* The caller of process, accepts and is_complete on automata that are     *)
(* complete and automata that are not: the small tuples, and the fixtures  *)
(* of the tests with their two states and two symbols.                     *)
(***************************************************************************)
ConstructForComplete == ConstructFrom(ProcessTuples \cup SharedTuples)

NextComplete ==
    \/ ConstructForComplete
    \/ Process
    \/ ProcessLoop
    \/ ProcessReturn
    \/ Accepts
    \/ AcceptsReturn
    \/ IsComplete

SpecComplete == Init /\ [][NextComplete]_vars

(***************************************************************************)
(* The caller of the tests' fixture: conftest.py builds simple_automaton   *)
(* and the tests call process and accepts on it.                           *)
(***************************************************************************)
ConstructSimple == ConstructFrom({simple_automaton})

NextSimple ==
    \/ ConstructSimple
    \/ Process
    \/ ProcessLoop
    \/ ProcessReturn
    \/ Accepts
    \/ AcceptsReturn

SpecSimple == Init /\ [][NextSimple]_vars

(***************************************************************************)
(* The properties.                                                         *)
(***************************************************************************)
\* the tuple the constructor was called with
Given == ctor_args[1]

Constructed == heap # {}

\* the data-model invariants of a tuple or an automaton
InitialStateValid(a) == a.initial_state \in a.states

AcceptingStatesValid(a) == a.accepting_states \subseteq a.states

SourceValid(a, it) == it.source_state \in a.states

SymbolValid(a, it) == it.symbol \in a.alphabet

TargetValid(a, it) == it.target_state \in a.states

TransitionsValid(a) ==
    \A i \in 1..Len(a.transitions) :
        /\ SourceValid(a, a.transitions[i])
        /\ SymbolValid(a, a.transitions[i])
        /\ TargetValid(a, a.transitions[i])

DataModelInvariants(a) ==
    InitialStateValid(a) /\ AcceptingStatesValid(a) /\ TransitionsValid(a)

\* a mapping as the set of its items: two dicts are equal iff these sets are
AsMap(d) == {d[i] : i \in 1..Len(d)}

\* C1: every automaton the caller holds satisfies the data-model invariants, and a
\* constructor call on a tuple that violates one of them raises an error and leaves
\* the caller no automaton.
C1_ConstructedIsValid ==
    /\ \A a \in heap : DataModelInvariants(a)
    /\ (ctor_args # <<>> /\ ~DataModelInvariants(Given))
          => (IsError(ctor_result) /\ heap = {})

\* an automaton with transitions exists and an operation on it has returned
C1_Witness ==
    /\ Constructed
    /\ Len(Self.transitions) >= 2
    /\ pc = "idle"
    /\ result.kind = "return"

\* C2: the constructor, called on a tuple that satisfies the data-model invariants,
\* raises nothing, and the fields of the automaton equal the arguments (the sets as
\* sets, the mapping as a mapping).
C2_ValidTupleConstructs ==
    (ctor_args # <<>> /\ DataModelInvariants(Given)) =>
        /\ ctor_result = Return(NoValue)
        /\ Constructed
        /\ \A a \in heap :
             /\ a.states = Given.states
             /\ a.alphabet = Given.alphabet
             /\ a.initial_state = Given.initial_state
             /\ a.accepting_states = Given.accepting_states
             /\ AsMap(a.transitions) = AsMap(Given.transitions)

\* a valid tuple with two states, one of them accepting, and transitions was constructed
C2_Witness ==
    /\ ctor_args # <<>>
    /\ DataModelInvariants(Given)
    /\ Constructed
    /\ Cardinality(Given.states) = 2
    /\ Cardinality(Given.accepting_states) = 1
    /\ Len(Given.transitions) >= 2

\* C3: the constructor raises InvalidStateError when initial_state is not in states,
\* and when initial_state is in states and accepting_states is not a subset of
\* states, whatever the transitions are.
C3_InvalidStateRejected ==
    (ctor_args # <<>> /\ (~InitialStateValid(Given) \/ ~AcceptingStatesValid(Given))) =>
        /\ ctor_result.kind = "InvalidStateError"
        /\ ~Constructed
        /\ ~InitialStateValid(Given) =>
              (ctor_result.what = "initial state" /\ ctor_result.state = Given.initial_state)
        /\ InitialStateValid(Given) =>
              (/\ ctor_result.what = "accepting states"
               /\ ctor_result.set = Given.accepting_states \ Given.states)

\* accepting_states is no subset of states, initial_state is in states, the mapping has
\* a bad item as well, and InvalidStateError was raised
C3_Witness ==
    /\ ctor_args # <<>>
    /\ InitialStateValid(Given)
    /\ ~AcceptingStatesValid(Given)
    /\ ~TransitionsValid(Given)
    /\ ctor_result.kind = "InvalidStateError"

\* the tuple has a bad item, its initial and accepting states are valid, and every item
\* is in bounds in the two components other than the one `what` names
OnlyViolation(a, what) ==
    /\ InitialStateValid(a)
    /\ AcceptingStatesValid(a)
    /\ ~TransitionsValid(a)
    /\ \A i \in 1..Len(a.transitions) :
         LET it == a.transitions[i]
         IN  /\ what # "source state" => SourceValid(a, it)
             /\ what # "symbol" => SymbolValid(a, it)
             /\ what # "target state" => TargetValid(a, it)

\* C4: with initial_state and accepting_states valid, the constructor raises
\* InvalidTransitionError as soon as one item has its source state outside states, its
\* symbol outside alphabet or its target state outside states; when only one of the
\* three kinds of violation is present, it is that kind the error reports.
C4_InvalidTransitionRejected ==
    (/\ ctor_args # <<>>
     /\ InitialStateValid(Given)
     /\ AcceptingStatesValid(Given)
     /\ ~TransitionsValid(Given)) =>
        /\ ctor_result.kind = "InvalidTransitionError"
        /\ ~Constructed
        /\ \A what \in {"source state", "symbol", "target state"} :
             OnlyViolation(Given, what) => ctor_result.what = what

\* the only violation of the tuple is a symbol outside the alphabet, in the second
\* item of the mapping, and InvalidTransitionError was raised for it
C4_Witness ==
    /\ ctor_args # <<>>
    /\ OnlyViolation(Given, "symbol")
    /\ Len(Given.transitions) >= 2
    /\ SymbolValid(Given, Given.transitions[1])
    /\ ctor_result.kind = "InvalidTransitionError"
    /\ ctor_result.what = "symbol"

\* a call of step has ended
StepEnded == op = "step" /\ pc = "idle"

\* whether the mapping has an item for (state, symbol)
Defined(a, state, symbol) == \E it \in AsMap(a.transitions) :
    it.source_state = state /\ it.symbol = symbol

\* C5: step fails with InvalidStateError whenever state is not in states (also when
\* symbol is not in alphabet), otherwise with InvalidSymbolError whenever symbol is not
\* in alphabet, otherwise with InvalidTransitionError exactly when (state, symbol) has
\* no item, and otherwise returns.
C5_StepCheckOrder ==
    StepEnded =>
        LET state == op_args[1]
            symbol == op_args[2]
        IN  result.kind =
              IF state \notin Self.states THEN "InvalidStateError"
              ELSE IF symbol \notin Self.alphabet THEN "InvalidSymbolError"
              ELSE IF ~Defined(Self, state, symbol) THEN "InvalidTransitionError"
              ELSE "return"

\* step was called with a state outside states and a symbol outside alphabet, and
\* raised InvalidStateError
C5_Witness ==
    /\ StepEnded
    /\ op_args[1] \notin Self.states
    /\ op_args[2] \notin Self.alphabet
    /\ result.kind = "InvalidStateError"

\* C6: step returns the target of the item of (state, symbol), and it returns for
\* every state of states and symbol of alphabet that have an item.
C6_StepIsLookup ==
    StepEnded =>
        LET state == op_args[1]
            symbol == op_args[2]
        IN  /\ result.kind = "return" =>
                 Item(state, symbol, result.value) \in AsMap(Self.transitions)
            /\ (state \in Self.states /\ symbol \in Self.alphabet
                  /\ Defined(Self, state, symbol)) => result.kind = "return"

\* step returned the target of the second item of a mapping whose first item has the
\* same source state and another target
C6_Witness ==
    /\ StepEnded
    /\ result.kind = "return"
    /\ Len(Self.transitions) >= 2
    /\ Self.transitions[1].source_state = op_args[1]
    /\ Self.transitions[1].target_state # result.value
    /\ Self.transitions[2] = Item(op_args[1], op_args[2], result.value)

\* C7: a call of step with the state and symbol of an earlier call gives the outcome
\* the earlier call gave (the same returned state, or the same error), whatever
\* operations ran in between.
C7_StepDeterministic ==
    [][(op' = "step" /\ kept # <<>> /\ op_args' = <<kept[1], kept[2]>>)
          => result' = kept[3]]_vars

\* step was called again with the arguments of a kept call, after a process call that
\* consumed a symbol, and returned the kept state
C7_Witness ==
    /\ StepEnded
    /\ kept # <<>>
    /\ op_args = <<kept[1], kept[2]>>
    /\ kept[4]
    /\ result = kept[3]
    /\ result.kind = "return"

\* step folded over seq from state: the state reached, or the first error
RECURSIVE FoldStep(_, _, _)
FoldStep(a, state, seq) ==
    IF seq = <<>> THEN Return(state)
    ELSE LET o == step(a, state, Head(seq))
         IN  IF IsError(o) THEN o ELSE FoldStep(a, o.value, Tail(seq))

\* what folding step over the input sequence of the process call gives
Folded == FoldStep(Self, Self.initial_state, input_sequence)

\* a call of process has ended
ProcessEnded == op = "process" /\ pc = "idle"

\* C8: on a non-empty sequence on which no step fails, process returns the state that
\* folding step left to right from initial_state gives.
C8_ProcessIsFold ==
    (ProcessEnded /\ input_sequence # <<>> /\ ~IsError(Folded)) => result = Folded

\* process returned after two symbols or more, in another state than the initial one
C8_Witness ==
    /\ ProcessEnded
    /\ Len(input_sequence) >= 2
    /\ result.kind = "return"
    /\ result.value # Self.initial_state

\* C9: process on the empty sequence returns initial_state, without a call of step, and
\* does not fail, also on an automaton with no transitions.
C9_ProcessEmpty ==
    (ProcessEnded /\ input_sequence = <<>>) =>
        /\ result = Return(Self.initial_state)
        /\ step_calls = 0
        /\ consumed = 0

\* process returned on the empty sequence, on an automaton with two states and no
\* transitions
C9_Witness ==
    /\ ProcessEnded
    /\ input_sequence = <<>>
    /\ Self.transitions = <<>>
    /\ Cardinality(Self.states) = 2
    /\ result.kind = "return"

\* the position of the first symbol of seq at which step fails, folding from state
FirstFailure(a, state, seq) ==
    CHOOSE i \in 1..Len(seq) :
        /\ IsError(FoldStep(a, state, SubSeq(seq, 1, i)))
        /\ \A j \in 1..(i - 1) : ~IsError(FoldStep(a, state, SubSeq(seq, 1, j)))

\* C10: when step fails for the first time at symbol x_i, process fails there with the
\* error step raised for the current state and x_i, returns no state, and has applied
\* step to x_1..x_i only.
C10_ProcessShortCircuits ==
    (op = "process" /\ IsError(Folded)) =>
        LET i == FirstFailure(Self, Self.initial_state, input_sequence)
            before == FoldStep(Self, Self.initial_state, SubSeq(input_sequence, 1, i - 1))
        IN  /\ consumed <= i
            /\ step_calls = consumed
            /\ pc = "idle" =>
                 /\ consumed = i
                 /\ current_state = before.value
                 /\ result = step(Self, before.value, input_sequence[i])
            /\ pc = "process" => (consumed < i /\ result = Pending)

\* process failed at the second symbol of a longer sequence
C10_Witness ==
    /\ ProcessEnded
    /\ IsError(result)
    /\ consumed = 2
    /\ Len(input_sequence) > 2

\* a call of accepts has ended
AcceptsEnded == op = "accepts" /\ pc = "idle"

\* C11: accepts returns True iff process on the same sequence returns a state of
\* accepting_states, False iff process returns a state outside accepting_states, and
\* raises the error of process whenever process raises one.
C11_AcceptsIsProcessMembership ==
    AcceptsEnded =>
        IF IsError(Folded) THEN result = Folded
        ELSE result = Return(bool(Folded.value \in Self.accepting_states))

\* accepts returned False on two symbols or more, in a state that is not the initial one,
\* of an automaton that has an accepting state
C11_Witness ==
    /\ AcceptsEnded
    /\ Len(input_sequence) >= 2
    /\ result = Return("False")
    /\ current_state # Self.initial_state
    /\ Self.accepting_states # {}

\* a read of is_complete has ended
IsCompleteEnded == op = "is_complete" /\ pc = "idle"

\* C12: is_complete is True iff the number of transition entries equals
\* |states| * |alphabet|, and False otherwise.
C12_IsCompleteIsCount ==
    IsCompleteEnded =>
        result = Return(bool(Cardinality(AsMap(Self.transitions)) =
                             Cardinality(Self.states) * Cardinality(Self.alphabet)))

\* is_complete was False on an automaton with as many transitions as states
C12_Witness ==
    /\ IsCompleteEnded
    /\ result = Return("False")
    /\ Self.transitions # <<>>
    /\ Len(Self.transitions) = Cardinality(Self.states)

\* C13: is_complete is True iff the mapping has an item for every state of states and
\* symbol of alphabet, that is iff step returns for every such state and symbol.
C13_IsCompleteIsTotal ==
    IsCompleteEnded =>
        /\ result.value = "True" <=>
              \A state \in Self.states, symbol \in Self.alphabet :
                  Defined(Self, state, symbol)
        /\ result.value = "True" <=>
              \A state \in Self.states, symbol \in Self.alphabet :
                  step(Self, state, symbol).kind = "return"

\* is_complete was True on an automaton with two states and a symbol
C13_Witness ==
    /\ IsCompleteEnded
    /\ result = Return("True")
    /\ Cardinality(Self.states) = 2
    /\ Self.alphabet # {}

\* C14: whatever the caller does to the containers it passed to the constructor, the
\* five components of the automaton stay what the constructor was given, the
\* data-model invariants keep holding, and step and is_complete give what they gave
\* right after construction.
C14_NoSharedMutableState ==
    Constructed =>
        /\ Self = __init__(Given)
        /\ DataModelInvariants(Self)
        /\ StepEnded => result = step(__init__(Given), op_args[1], op_args[2])
        /\ IsCompleteEnded => result = is_complete(__init__(Given))

\* C15: no step of step, process, accepts or is_complete, returning or raising, changes
\* a component of the automaton, and an assignment to a field raises an error and
\* leaves the field as it was.
C15_NothingMutates ==
    [][Constructed =>
          /\ heap' = heap
          /\ op' = "setattr" => result'.kind = "FrozenInstanceError"]_vars

\* the caller tried to assign another state to initial_state, an error was raised and
\* initial_state is what the constructor was given
C15_Witness ==
    /\ op = "setattr"
    /\ op_args[1] = "initial_state"
    /\ op_args[2] # Given.initial_state
    /\ result.kind = "FrozenInstanceError"
    /\ Self.initial_state = Given.initial_state

\* a thread's call has ended
ThreadEnded(t) == threads[t].pc = "done"

\* the outcome of the call of a frame when it runs alone: step and is_complete are
\* one evaluation, process is the fold of step from initial_state (C8, C10), accepts
\* is the membership of what process returns (C11)
Alone(a, f) ==
    LET folded == FoldStep(a, a.initial_state, f.input_sequence)
    IN  CASE f.op = "step" -> step(a, f.op_args[1], f.op_args[2])
          [] f.op = "is_complete" -> is_complete(a)
          [] f.op = "process" -> folded
          [] f.op = "accepts" ->
                IF IsError(folded) THEN folded
                ELSE Return(bool(folded.value \in a.accepting_states))

\* C16: whatever the order in which concurrent callers of step, process, accepts and
\* is_complete on one automaton take their steps, each call ends with the outcome it
\* has when it runs alone.
C16_ConcurrentCallsAsAlone ==
    \A t \in Threads : ThreadEnded(t) => threads[t].result = Alone(Self, threads[t])

\* a call of process ended in one thread while another thread is inside the loop of
\* its own call, two symbols in and in another state
C16_Witness ==
    /\ ThreadEnded("t1")
    /\ threads["t1"].op = "process"
    /\ Len(threads["t1"].input_sequence) = 2
    /\ ~IsError(threads["t1"].result)
    /\ threads["t2"].pc = "process"
    /\ threads["t2"].consumed = 2
    /\ threads["t2"].current_state # threads["t1"].current_state

\* a call of mod_three has ended
ModThreeEnded == op = "mod_three" /\ pc = "idle"

\* the string holds characters "0" and "1" only
IsBinary(w) == \A i \in 1..Len(w) : w[i] \in {"0", "1"}

\* the string read as an unsigned binary integer, most significant bit first
RECURSIVE BinaryValue(_)
BinaryValue(w) ==
    IF w = <<>> THEN 0
    ELSE 2 * BinaryValue(SubSeq(w, 1, Len(w) - 1)) + (IF w[Len(w)] = "1" THEN 1 ELSE 0)

\* C17: on a non-empty string of "0" and "1", mod_three returns the value of the string
\* as a binary integer modulo 3, one of 0, 1, 2.
C17_ModThreeIsRemainder ==
    (ModThreeEnded /\ input_sequence # <<>> /\ IsBinary(input_sequence)) =>
        /\ result.kind = "return"
        /\ result.value = BinaryValue(input_sequence) % 3
        /\ result.value \in {0, 1, 2}

\* mod_three returned 2 on a string with a leading zero whose value is 11 or more
C17_Witness ==
    /\ ModThreeEnded
    /\ IsBinary(input_sequence)
    /\ Len(input_sequence) > 4
    /\ input_sequence[1] = "0"
    /\ BinaryValue(input_sequence) > 10
    /\ result = Return(2)

\* C18: mod_three on the empty string raises ValueError, which is none of the errors
\* of the engine, without having entered process; process of the same automaton on the
\* empty sequence returns the initial state S0.
C18_EmptyInputRejectedFirst ==
    /\ (ModThreeEnded /\ input_sequence = <<>>) =>
          /\ result = ValueError
          /\ ~IsError(result)
          /\ current_state = NoValue
          /\ step_calls = 0
    /\ (ProcessEnded /\ input_sequence = <<>> /\ Self = _MOD_THREE_AUTOMATON) =>
          result = Return("S0")

\* mod_three was called on the empty string and raised ValueError
C18_Witness ==
    /\ ModThreeEnded
    /\ op_args = <<(<<>>)>>
    /\ result.kind = "ValueError"
    /\ Self = _MOD_THREE_AUTOMATON

\* C19: on a non-empty string with a character other than "0" and "1" at any position,
\* mod_three raises InvalidSymbolError: it returns nothing and raises nothing else.
C19_NonBinaryRejected ==
    (ModThreeEnded /\ input_sequence # <<>> /\ ~IsBinary(input_sequence)) =>
        result.kind = "InvalidSymbolError"

\* mod_three raised InvalidSymbolError for a character that follows three binary digits
C19_Witness ==
    /\ ModThreeEnded
    /\ Len(input_sequence) > 3
    /\ IsBinary(SubSeq(input_sequence, 1, 3))
    /\ input_sequence[4] = "2"
    /\ result = InvalidSymbolError("2")
    /\ current_state = "S2"

\* what mod_three gives on a non-empty binary string when process is the fold of step
\* from the initial state (C8)
mod_three_of(a, w) == Return(_STATE_TO_REMAINDER[FoldStep(a, a.initial_state, w).value])

\* the first k characters of the string are zeros, and something follows them
LeadingZeros(u, k) == k < Len(u) /\ \A i \in 1..k : u[i] = "0"

\* C20: mod_three of k zeros followed by a non-empty binary string w equals
\* mod_three of w, for every k.
C20_LeadingZerosIgnored ==
    (ModThreeEnded /\ input_sequence # <<>> /\ IsBinary(input_sequence)) =>
        \A k \in 0..Len(input_sequence) :
            LeadingZeros(input_sequence, k) =>
                result = mod_three_of(Self, SubSeq(input_sequence, k + 1, Len(input_sequence)))

\* mod_three returned a remainder other than 0 on two zeros or more followed by a string
\* of two digits or more that starts with 1
C20_Witness ==
    /\ ModThreeEnded
    /\ Len(input_sequence) > 3
    /\ LeadingZeros(input_sequence, 2)
    /\ IsBinary(input_sequence)
    /\ \E k \in 2..(Len(input_sequence) - 2) :
          LeadingZeros(input_sequence, k) /\ input_sequence[k + 1] = "1"
    /\ result.kind = "return"
    /\ result.value # 0

\* the string is not empty and its last symbol is "1"
EndsInOne(w) == w # <<>> /\ w[Len(w)] = "1"

\* C21: on the two-state test automaton, accepts is true exactly on the strings over
\* {"0", "1"} that end in "1", and process returns B after a last symbol "1", A after
\* a last symbol "0" and A, the initial state, on the empty string.
C21_SimpleAcceptsEndingInOne ==
    /\ AcceptsEnded => result = Return(bool(EndsInOne(input_sequence)))
    /\ ProcessEnded =>
          result = Return(IF EndsInOne(input_sequence) THEN "B" ELSE "A")

\* accepts returned False on a string of three symbols that has a "1" before its last
\* symbol "0"
C21_Witness ==
    /\ AcceptsEnded
    /\ Len(input_sequence) = 3
    /\ input_sequence[2] = "1"
    /\ input_sequence[3] = "0"
    /\ result = Return("False")

\* process is running
InProcess == op = "process" /\ pc = "process"

\* the symbols read so far are the first `consumed` of the sequence, one call of step
\* for each; a call that returned has read them all, a call that failed has read up
\* to the symbol of the first failure
ReadOncePrefix ==
    (InProcess \/ ProcessEnded) =>
        /\ consumed \in 0..Len(input_sequence)
        /\ step_calls = consumed
        /\ (ProcessEnded /\ ~IsError(result)) => consumed = Len(input_sequence)
        /\ (ProcessEnded /\ IsError(result)) =>
              consumed = FirstFailure(Self, Self.initial_state, input_sequence)

\* one transition of a running process either returns or reads the symbol right after
\* the ones read so far and steps on it
ReadsNext ==
    InProcess =>
        \/ /\ consumed' = consumed + 1
           /\ step_calls' = step_calls + 1
           /\ LET o == step(Self, current_state, input_sequence[consumed + 1])
              IN  IF IsError(o) THEN pc' = "idle" /\ result' = o
                  ELSE pc' = "process" /\ current_state' = o.value
        \/ /\ consumed' = consumed
           /\ consumed = Len(input_sequence)
           /\ pc' = "idle"

\* C22: process reads its input left to right, each symbol once and only after the
\* step on the symbol before it, makes at most n calls of step on n symbols, and
\* always ends: having read all n symbols, or exactly i when the first failure is at
\* symbol i.
C22_ConsumesLeftToRightOnce ==
    /\ []ReadOncePrefix
    /\ [][ReadsNext]_vars
    /\ (InProcess ~> ProcessEnded)

\* process returned after three symbols, not all the same, and three calls of step
C22_Witness ==
    /\ ProcessEnded
    /\ ~IsError(result)
    /\ Len(input_sequence) = 3
    /\ input_sequence[1] # input_sequence[3]
    /\ consumed = 3
    /\ step_calls = 3

\* the sequence has a symbol that is not in the alphabet of the automaton
HasForeignSymbol(a, seq) == \E i \in 1..Len(seq) : seq[i] \notin a.alphabet

\* the position of the first such symbol
FirstForeignSymbol(a, seq) ==
    CHOOSE i \in 1..Len(seq) :
        /\ seq[i] \notin a.alphabet
        /\ \A j \in 1..(i - 1) : seq[j] \in a.alphabet

ProcessOrAccepts == op \in {"process", "accepts"}

\* C24: the current state process holds, before and after every step, is in states;
\* so process and accepts never raise InvalidStateError, and the state process returns
\* is in states.
C24_CurrentStateInStates ==
    ProcessOrAccepts =>
        /\ current_state \in Self.states
        /\ result.kind # "InvalidStateError"
        /\ (result.kind = "return" /\ (op = "process" \/ pc = "accepts")) =>
              result.value \in Self.states

\* process is past its second step, in another state than the initial one, on an
\* automaton with two states
C24_Witness ==
    /\ InProcess
    /\ consumed = 2
    /\ Cardinality(Self.states) = 2
    /\ current_state # Self.initial_state
    /\ current_state \in Self.states

\* an item of the mapping with a component out of bounds
ItemValid(a, it) == SourceValid(a, it) /\ SymbolValid(a, it) /\ TargetValid(a, it)

\* the position, in iteration order, of the first item with a component out of bounds
FirstInvalidItem(a) ==
    CHOOSE i \in 1..Len(a.transitions) :
        /\ ~ItemValid(a, a.transitions[i])
        /\ \A j \in 1..(i - 1) : ItemValid(a, a.transitions[j])

\* C25: the constructor reports an invalid initial_state before anything else, then
\* invalid accepting_states before any transition, then the first invalid item of the
\* mapping in iteration order, and of that item the source state before the symbol and
\* the symbol before the target state.
C25_ValidationPrecedence ==
    ctor_args # <<>> =>
        IF ~InitialStateValid(Given)
        THEN /\ ctor_result.kind = "InvalidStateError"
             /\ ctor_result.what = "initial state"
        ELSE IF ~AcceptingStatesValid(Given)
        THEN /\ ctor_result.kind = "InvalidStateError"
             /\ ctor_result.what = "accepting states"
        ELSE IF ~TransitionsValid(Given)
        THEN LET it == Given.transitions[FirstInvalidItem(Given)]
             IN  /\ ctor_result.kind = "InvalidTransitionError"
                 /\ IF ~SourceValid(Given, it)
                    THEN /\ ctor_result.what = "source state"
                         /\ ctor_result.state = it.source_state
                    ELSE IF ~SymbolValid(Given, it)
                    THEN /\ ctor_result.what = "symbol"
                         /\ ctor_result.symbol = it.symbol
                    ELSE /\ ctor_result.what = "target state"
                         /\ ctor_result.state = it.target_state
        ELSE ctor_result.kind = "return"

\* initial_state and accepting_states are valid, both items of the mapping are out of
\* bounds, the first in its symbol and its target state and the second in its source
\* state, and the error names the symbol of the first
C25_Witness ==
    /\ ctor_args # <<>>
    /\ InitialStateValid(Given)
    /\ AcceptingStatesValid(Given)
    /\ Len(Given.transitions) = 2
    /\ SourceValid(Given, Given.transitions[1])
    /\ ~SymbolValid(Given, Given.transitions[1])
    /\ ~TargetValid(Given, Given.transitions[1])
    /\ ~SourceValid(Given, Given.transitions[2])
    /\ ctor_result = InvalidTransitionError("symbol", NoValue, Given.transitions[1].symbol)

\* every symbol of the sequence is in the alphabet of the automaton
OverAlphabet(a, seq) == \A i \in 1..Len(seq) : seq[i] \in a.alphabet

\* C26: on an automaton for which is_complete is True, process and accepts return on
\* every sequence of symbols of the alphabet; process and accepts raise
\* InvalidTransitionError only on an automaton for which is_complete is False.
C26_CompleteNeverFails ==
    ((ProcessEnded \/ AcceptsEnded)) =>
        /\ (is_complete(Self) = Return("True") /\ OverAlphabet(Self, input_sequence)) =>
              result.kind = "return"
        /\ result.kind = "InvalidTransitionError" => is_complete(Self) = Return("False")

\* accepts returned on three symbols, not all the same, on a complete automaton with
\* two states and two symbols
C26_Witness ==
    /\ AcceptsEnded
    /\ is_complete(Self) = Return("True")
    /\ Cardinality(Self.states) = 2
    /\ Cardinality(Self.alphabet) = 2
    /\ Len(input_sequence) = 3
    /\ input_sequence[1] # input_sequence[2]
    /\ result = Return("True")

====
